---- MODULE Spec2Model ----
(***************************************************************************)
(* Model of the desktop autotune application: the frame pipeline of        *)
(* AudioProcessor::process_file (src/src/audio_processor.rs), the same     *)
(* pipeline as written a second time in run_cli (src/src/cli.rs), and the  *)
(* GUI that runs process_file on a background thread and polls its two     *)
(* channels (src/src/main.rs).                                             *)
(*                                                                         *)
(* Numbers.  A canonical (f32) sample is modelled in fixed point: the      *)
(* integer x stands for the amplitude x / Unit.  Unit is twice the 16-bit  *)
(* full scale, so that decoding and the stereo average are exact.  Only    *)
(* the 16-bit depth is carried through the pipeline (the 24- and 32-bit    *)
(* scale factors exceed the integer range of the checker); other depths    *)
(* appear as rejected inputs.  Sequences are 1-based here and 0-based in   *)
(* the source: the source's buf[p + i] is buf[p + i + 1] below.            *)
(***************************************************************************)
EXTENDS Integers, Sequences, FiniteSets, TLC

\* ------------------------------------------------------------------ bounds
MaxSamples == 4      \* longest raw (interleaved) input
MaxFftSize == 3      \* largest frame size tried
MaxHopSize == 3      \* largest hop size tried
GuiFftSize == 4      \* the GUI's fixed frame size, scaled down from 1024
GuiHopSize == 1      \* the GUI's fixed hop size, scaled down from 256
MaxRuns    == 2      \* runs the GUI user starts

\* ------------------------------------------------------- program constants
FullScale16   == 32768   \* decode divides by it
OutputScale16 == 32767   \* encode multiplies by it
Unit          == 65536   \* model amplitude 1.0 (2 * FullScale16)
UsizeMax      == 2147483647  \* usize::MAX, narrowed to 31 bits

\* ------------------------------------------------------------ input values
RawValues   == {-16384, 32767}
ChannelsSet == {1, 2, 3}
BitsSet     == {8, 16}

\* --------------------------------------------------------------- arithmetic
Abs(x) == IF x < 0 THEN -x ELSE x

Sign(x) == IF x < 0 THEN -1 ELSE 1

Max2(a, b) == IF a >= b THEN a ELSE b

\* f32::round of n / d (d > 0): nearest integer, halves away from zero.
RoundDiv(n, d) ==
  LET q == Abs(n) \div d
      r == Abs(n) % d
  IN Sign(n) * (q + (IF 2 * r >= d THEN 1 ELSE 0))

RECURSIVE SeqMaxAbs(_)
\* iter().map(|x| x.abs()).fold(0.0, f32::max)
SeqMaxAbs(s) ==
  IF s = <<>> THEN 0 ELSE Max2(Abs(Head(s)), SeqMaxAbs(Tail(s)))

Zeros(n) == [i \in 1..n |-> 0]

\* ------------------------------------------------------------ format adapter
\* scale_factor of the match on bits_per_sample, as Unit * scale_factor.
DecodeScale(bits) == IF bits = 16 THEN Unit \div FullScale16 ELSE 0

\* audio_data.push(sample as f32 * scale_factor)
DecodeSamples(samples, bits) ==
  [i \in 1..Len(samples) |-> samples[i] * DecodeScale(bits)]

\* Mutant of GetOrZero: a missing right sample repeats the left one.
GetOrZero_Repeat(audio_data, i) ==
  IF i + 1 <= Len(audio_data) THEN audio_data[i + 1] ELSE audio_data[i]

\* audio_data.get(i + 1).copied().unwrap_or(0.0), i the 0-based index
GetOrZero(audio_data, i) ==
  IF i + 1 <= Len(audio_data) THEN audio_data[i + 1] ELSE 0

\* (left + right) * 0.5
MixPair(left, right) == (left + right) \div 2

\* for i in (0..len).step_by(2): one mono sample per started pair
StereoToMono(audio_data) ==
  [j \in 1..((Len(audio_data) + 1) \div 2) |->
     MixPair(audio_data[2 * j - 1], GetOrZero(audio_data, 2 * j - 1))]

\* the mono_data of either pipeline
MonoData(samples, channels, bits) ==
  IF channels = 2 THEN StereoToMono(DecodeSamples(samples, bits))
  ELSE DecodeSamples(samples, bits)

\* Mutant of MonoToStereo: the right channel is left silent.
MonoToStereo_LeftOnly(audio) ==
  [i \in 1..(2 * Len(audio)) |-> IF i % 2 = 1 THEN audio[(i + 1) \div 2] ELSE 0]

\* stereo.push(sample); stereo.push(sample)
MonoToStereo(audio) ==
  [i \in 1..(2 * Len(audio)) |-> audio[(i + 1) \div 2]]

\* output_scale of the match on bits_per_sample
OutputScale(bits) == IF bits = 16 THEN OutputScale16 ELSE 0

\* (x * output_scale).round() as i32
EncodeSample(x, bits) == RoundDiv(x * OutputScale(bits), Unit)

EncodeSamples(audio, bits) ==
  [i \in 1..Len(audio) |-> EncodeSample(audio[i], bits)]

\* The same two conversions on a grid four times finer than a 16-bit step
\* (amplitude 1.0 is FineUnit), for samples that are not multiples of it.
FineUnit == 4 * FullScale16

\* (x * output_scale).round() as i32 for x = a / FineUnit: with a = 4q + k
\* the product is q + (k * 32767 - 4q * (32768 - 32767)) / FineUnit, rounded
\* to nearest, halves away from zero.
EncodeSampleFine(x) ==
  LET q == Abs(x) \div 4
      k == Abs(x) % 4
  IN Sign(x) * (q + (2 * k * OutputScale16
                       - 8 * q * (FullScale16 - OutputScale16)
                       + 4 * FullScale16) \div (8 * FullScale16))

\* sample as f32 * scale_factor on the fine grid
DecodeSampleFine(sample) == sample * (FineUnit \div FullScale16)

\* ---------------------------------------------------------------- normalizer
\* sample * (0.95 / max_amplitude), rounded to the model's grid.  The
\* quotient x * 19 * Unit / (20 * peak) is taken by long division in
\* base 128 so that no intermediate product leaves the integer range.
ScaleSample(x, peak) ==
  LET n  == Abs(x) * 19
      d  == 5 * peak
      q0 == n \div d
      r0 == n % d
      q1 == (r0 * 128) \div d
      r1 == (r0 * 128) % d
      q2 == (r1 * 128) \div d
      r2 == (r1 * 128) % d
  IN Sign(x) * (q0 * 16384 + q1 * 128 + q2 + (IF 2 * r2 >= d THEN 1 ELSE 0))

\* Mutant of Normalize: no sample is ever scaled.
Normalize_Skip(processed_audio) == processed_audio

\* Mutant of Normalize: a peak of exactly 1.0 is scaled too.
Normalize_AtOrAbove(processed_audio) ==
  LET max_amplitude == SeqMaxAbs(processed_audio)
  IN IF max_amplitude >= Unit /\ max_amplitude > 0
     THEN [i \in 1..Len(processed_audio) |->
             ScaleSample(processed_audio[i], max_amplitude)]
     ELSE processed_audio

\* if max_amplitude > 1.0 { for sample in &mut processed_audio { *sample *= scale } }
Normalize(processed_audio) ==
  LET max_amplitude == SeqMaxAbs(processed_audio)
  IN IF max_amplitude > Unit
     THEN [i \in 1..Len(processed_audio) |->
             ScaleSample(processed_audio[i], max_amplitude)]
     ELSE processed_audio

\* ------------------------------------------------------------ frame scheduler
\* input_buffer.copy_from_slice(&mono_data[sample_pos..sample_pos + fft_size])
FullFrame(mono_data, sample_pos, fft_size) ==
  [i \in 1..fft_size |-> mono_data[sample_pos + i]]

\* input_buffer.fill(0.0); input_buffer[..remaining].copy_from_slice(&mono_data[sample_pos..])
PaddedFrame(mono_data, sample_pos, fft_size) ==
  [i \in 1..fft_size |->
     IF sample_pos + i <= Len(mono_data) THEN mono_data[sample_pos + i] ELSE 0]

\* if processed_audio.len() < n { processed_audio.resize(n, 0.0) }
ResizeTo(processed_audio, n) ==
  IF Len(processed_audio) < n
  THEN processed_audio \o Zeros(n - Len(processed_audio))
  ELSE processed_audio

\* Mutant of AddAt: `=` in place of `+=`.
AddAt_Overwrite(processed_audio, sample_pos, frame, count) ==
  [i \in 1..Len(processed_audio) |->
     IF sample_pos < i /\ i <= sample_pos + count
     THEN frame[i - sample_pos]
     ELSE processed_audio[i]]

\* processed_audio[sample_pos + i] += frame[i]   for i in 0..count
AddAt(processed_audio, sample_pos, frame, count) ==
  [i \in 1..Len(processed_audio) |->
     IF sample_pos < i /\ i <= sample_pos + count
     THEN processed_audio[i] + frame[i - sample_pos]
     ELSE processed_audio[i]]

\* resize, then add: the body of each match arm
OverlapAdd(processed_audio, sample_pos, frame, count) ==
  AddAt(ResizeTo(processed_audio, sample_pos + count), sample_pos, frame, count)

\* --------------------------------------------------------- correction engine
\* The external process_autotune is opaque: it fails, returns the frame
\* unchanged, or returns a changed frame (gain 2 plus an offset, which is
\* non-zero on zero padding too).
EngineChoices == {"err", "noop", "boost"}

EngineOutput(choice, input_buffer) ==
  IF choice = "boost"
  THEN [i \in 1..Len(input_buffer) |-> 2 * input_buffer[i] + Unit \div 4]
  ELSE input_buffer

\* -------------------------------------------------------------------- state
VARIABLES
  wav,            \* the input file: [channels, bits_per_sample, samples]
  config,         \* AutotuneConfig handed to a pipeline: [fft_size, hop_size]
  engine_script,  \* what process_autotune answered at its 1st, 2nd, ... call
  pf,             \* the activation of AudioProcessor::process_file
  progress_chan,  \* mpsc channel of ProcessingProgress: [queue, rx_alive]
  result_chan,    \* mpsc channel of ProcessingResult: [queue, tx_alive]
  cli,            \* the activation of run_cli and the process around it
  app,            \* AutotuneApp and the position of its update() call
  io_fault,       \* the file operation that fails for every run, or "none"
  codec           \* one sample on its way through encode and decode

vars == <<wav, config, engine_script, pf, progress_chan, result_chan, cli, app,
          io_fault, codec>>

\* A sample before it is encoded.
CodecEntry(x) == [pc |-> "input", x |-> x, encoded |-> 0, decoded |-> 0]

\* ------------------------------------------------------------------ messages
\* ProcessingProgress::Status(String)
Status(text) == [kind |-> "Status", text |-> text, num |-> 0, den |-> 1]

\* ProcessingProgress::Progress(f32): chunk_index as f32 / total_chunks as f32
Progress(chunk_index, total_chunks) ==
  [kind |-> "Progress", text |-> "", num |-> chunk_index, den |-> total_chunks]

\* ProcessingResult::Success { samples_processed, .. }
Success(n) == [kind |-> "Success", samples_processed |-> n, msg |-> ""]

\* ProcessingResult::Error(String)
Error(msg) == [kind |-> "Error", samples_processed |-> 0, msg |-> msg]

\* Mutant of Send: the message is queued ahead of those already waiting.
Send_Prepend(chan, msg) ==
  IF chan.rx_alive
  THEN [chan EXCEPT !.queue = <<msg>> \o @, !.sent = Append(@, msg)]
  ELSE [chan EXCEPT !.sent = Append(@, msg)]

\* Sender::send on an unbounded channel: queues the message while the
\* receiver lives, fails (and drops the message) once it is gone.
Send(chan, msg) ==
  IF chan.rx_alive
  THEN [chan EXCEPT !.queue = Append(@, msg), !.sent = Append(@, msg)]
  ELSE [chan EXCEPT !.sent = Append(@, msg)]

\* mpsc::channel(): empty, both ends alive.  `sent` is history: every
\* message handed to send() on this channel, delivered or not.
NewChannel == [queue |-> <<>>, rx_alive |-> TRUE, tx_alive |-> TRUE, sent |-> <<>>]

\* Mutant of IgnoreSendError: the Result of the send is unwrapped, so a
\* send to a dropped receiver panics.
IgnoreSendError_Unwrap(chan, next_pc) ==
  IF chan.rx_alive THEN next_pc ELSE "panicked"

\* `let _ = progress_sender.send(..)`: the Result of the send is thrown
\* away and the function goes on to next_pc.
IgnoreSendError(chan, next_pc) == next_pc

\* ------------------------------------------------------------------- engine
\* The engine is deterministic: the k-th call of a run on the same file and
\* configuration answers what the k-th call answered before.
process_autotune(k) ==
  IF k <= Len(engine_script) THEN {engine_script[k]} ELSE EngineChoices

RecordChoice(k, choice) ==
  IF k <= Len(engine_script) THEN engine_script
  ELSE Append(engine_script, choice)

\* One engine call as the frame history keeps it.
Call(sample_pos, choice, input_buffer, added) ==
  [pos |-> sample_pos, choice |-> choice, input |-> input_buffer, added |-> added]

\* ------------------------------------------- AudioProcessor::process_file
\* Mutant of SupportedChannels: the channel count is not checked.
SupportedChannels_Any == {1, 2, 3}

SupportedChannels == {1, 2}

SupportedBits == {16, 24, 32}

NoResult == [kind |-> "None", samples_processed |-> 0, msg |-> ""]

NoFile == [state |-> "absent", channels |-> 0, bits_per_sample |-> 0, samples |-> <<>>]

\* The locals of process_file on entry.
PFEntry(cfg, at) ==
  [pc |-> at, config |-> cfg,
   spec |-> [channels |-> 0, bits_per_sample |-> 0],
   audio_data |-> <<>>, mono_data |-> <<>>,
   states_created |-> 0, calls |-> <<>>,
   processed_audio |-> <<>>, chunk_index |-> 0, total_chunks |-> 0,
   sample_pos |-> 0, output_samples |-> <<>>, integer_samples |-> <<>>,
   result |-> NoResult, out_file |-> NoFile]

PFOthers == <<wav, config, result_chan, cli, app, io_fault, codec>>

\* `return ProcessingResult::Error(..)`
PFReturnError(msg) == [pf EXCEPT !.pc = "returned", !.result = Error(msg)]

\* Status("Opening input file..."), WavReader::open, format validation
PF_Open ==
  /\ pf.pc = "open"
  /\ progress_chan' = Send(progress_chan, Status("Opening input file..."))
  /\ pf' = IF io_fault = "open"
             THEN PFReturnError("Failed to open input file")
             ELSE IF wav.channels \notin SupportedChannels
             THEN PFReturnError("Unsupported channel count")
             ELSE IF wav.bits_per_sample \notin SupportedBits
             THEN PFReturnError("Unsupported bit depth")
             ELSE [pf EXCEPT
                     !.pc = IgnoreSendError(progress_chan, "read"),
                     !.spec = [channels |-> wav.channels,
                               bits_per_sample |-> wav.bits_per_sample]]
  /\ UNCHANGED <<engine_script, PFOthers>>

\* Status("Reading audio data..."), reader.samples().collect()
PF_Read ==
  /\ pf.pc = "read"
  /\ progress_chan' = Send(progress_chan, Status("Reading audio data..."))
  /\ pf' = IF io_fault = "read"
             THEN PFReturnError("Failed to read samples")
             ELSE [pf EXCEPT !.pc = IgnoreSendError(progress_chan, "convert")]
  /\ UNCHANGED <<engine_script, PFOthers>>

\* Status("Converting audio format..."), scaling to f32
PF_Convert ==
  /\ pf.pc = "convert"
  /\ progress_chan' = Send(progress_chan, Status("Converting audio format..."))
  /\ pf' = [pf EXCEPT
              !.pc = IgnoreSendError(progress_chan, "to_mono"),
              !.audio_data = DecodeSamples(wav.samples, pf.spec.bits_per_sample)]
  /\ UNCHANGED <<engine_script, PFOthers>>

\* let mono_data = if spec.channels == 2 { Status(..); average } else { audio_data }
PF_ToMono ==
  /\ pf.pc = "to_mono"
  /\ IF pf.spec.channels = 2
     THEN /\ progress_chan' =
               Send(progress_chan, Status("Converting stereo to mono..."))
          /\ pf' = [pf EXCEPT
                      !.pc = IgnoreSendError(progress_chan, "init_engine"),
                      !.mono_data = StereoToMono(pf.audio_data),
                      !.audio_data = <<>>]
     ELSE /\ progress_chan' = progress_chan
          /\ pf' = [pf EXCEPT !.pc = "init_engine",
                              !.mono_data = pf.audio_data,
                              !.audio_data = <<>>]
  /\ UNCHANGED <<engine_script, PFOthers>>

\* Status("Initializing autotune..."), AutotuneState::new(processing_config)
PF_InitEngine ==
  /\ pf.pc = "init_engine"
  /\ progress_chan' = Send(progress_chan, Status("Initializing autotune..."))
  /\ pf' = [pf EXCEPT
              !.pc = IgnoreSendError(progress_chan, "begin"),
              !.states_created = @ + 1,
              !.calls = <<>>]
  /\ UNCHANGED <<engine_script, PFOthers>>

\* A usize result, or the panic that took its place.
Value(n) == [panic |-> FALSE, value |-> n]

Panicked == [panic |-> TRUE, value |-> 0]

\* (mono_samples + fft_size - 1) / hop_size in usize: a zero divisor
\* panics; 0 + 0 - 1 panics where overflow checks are compiled in and wraps
\* to usize::MAX where they are not.  The set of possible results.
PFTotalChunks(mono_samples, fft_size, hop_size) ==
  IF hop_size = 0 THEN {Panicked}
  ELSE IF mono_samples + fft_size = 0
  THEN {Panicked, Value(UsizeMax \div hop_size)}
  ELSE {Value((mono_samples + fft_size - 1) \div hop_size)}

\* Status("Processing audio..."), the locals of the frame loop
PF_Begin ==
  /\ pf.pc = "begin"
  /\ progress_chan' = Send(progress_chan, Status("Processing audio..."))
  /\ \E total \in PFTotalChunks(Len(pf.mono_data), pf.config.fft_size,
                                pf.config.hop_size) :
       pf' = IF total.panic
             THEN [pf EXCEPT !.pc = "panicked"]
             ELSE [pf EXCEPT
                     !.pc = IgnoreSendError(progress_chan, "frames"),
                     !.processed_audio = <<>>,
                     !.chunk_index = 0,
                     !.total_chunks = total.value,
                     !.sample_pos = 0]
  /\ UNCHANGED <<engine_script, PFOthers>>

\* while sample_pos + fft_size <= mono_samples
PFLoopCondition ==
  pf.sample_pos + pf.config.fft_size <= Len(pf.mono_data)

\* Mutant of PFFrameContribution: the engine's output is averaged in
\* (halved) instead of added whole.
PFFrameContribution_Halved(choice, input_buffer) ==
  IF choice = "err" THEN input_buffer
  ELSE [i \in 1..Len(input_buffer) |->
          EngineOutput(choice, input_buffer)[i] \div 2]

\* What a full frame adds: the engine's output, or on Err the input frame.
PFFrameContribution(choice, input_buffer) ==
  IF choice = "err" THEN input_buffer ELSE EngineOutput(choice, input_buffer)

\* Mutant of PFFrameArms: the Err arm returns an error.
PFFrameArms_ReturnOnErr(p, choice, input_buffer) ==
  IF choice = "err"
  THEN [p EXCEPT
          !.pc = "returned",
          !.calls = Append(@, Call(p.sample_pos, choice, input_buffer, <<>>)),
          !.result = Error("Autotune processing error")]
  ELSE LET added == EngineOutput(choice, input_buffer)
       IN [p EXCEPT
             !.calls = Append(@, Call(p.sample_pos, choice, input_buffer, added)),
             !.processed_audio =
                OverlapAdd(@, p.sample_pos, added, p.config.fft_size)]

\* match process_autotune(..) { Ok(_) => { resize; add output_buffer }
\*                              Err(e) => { warn; resize; add input_buffer } }
PFFrameArms(p, choice, input_buffer) ==
  LET added == PFFrameContribution(choice, input_buffer)
  IN [p EXCEPT
        !.calls = Append(@, Call(p.sample_pos, choice, input_buffer, added)),
        !.processed_audio = OverlapAdd(@, p.sample_pos, added, p.config.fft_size)]

\* Mutant of NextSamplePos: the advance is one sample more than the hop.
NextSamplePos_Skip(sample_pos, cfg) == sample_pos + cfg.hop_size + 1

\* Mutant of NextSamplePos: the advance is a whole frame.
NextSamplePos_ByFrame(sample_pos, cfg) == sample_pos + cfg.fft_size

\* sample_pos += hop_size
NextSamplePos(sample_pos, cfg) == sample_pos + cfg.hop_size

\* One iteration of the frame loop: the engine call and its match, then
\* (unless an arm has left the function) the Progress message and the advance.
PF_Frame ==
  /\ pf.pc = "frames"
  /\ PFLoopCondition
  /\ LET input_buffer == FullFrame(pf.mono_data, pf.sample_pos, pf.config.fft_size)
         k            == Len(pf.calls) + 1
     IN \E choice \in process_autotune(k) :
          LET arm == PFFrameArms(pf, choice, input_buffer)
          IN /\ engine_script' = RecordChoice(k, choice)
             /\ IF arm.pc = "frames"
                THEN /\ progress_chan' =
                          Send(progress_chan,
                               Progress(pf.chunk_index + 1, pf.total_chunks))
                     /\ pf' = [arm EXCEPT
                                 !.pc = IgnoreSendError(progress_chan, "frames"),
                                 !.chunk_index = @ + 1,
                                 !.sample_pos = NextSamplePos(@, pf.config)]
                ELSE /\ progress_chan' = progress_chan
                     /\ pf' = arm
  /\ UNCHANGED PFOthers

\* What the final partial frame adds: the first `remaining` samples of the
\* engine's output, or on Err those of mono_data.
PFTailContribution(choice, input_buffer, mono_data, sample_pos, remaining) ==
  IF choice = "err"
  THEN [i \in 1..remaining |-> mono_data[sample_pos + i]]
  ELSE SubSeq(EngineOutput(choice, input_buffer), 1, remaining)

\* The match of the tail: either arm resizes to sample_pos + remaining and
\* adds `remaining` samples.
PFTailArms(p, choice, input_buffer, remaining) ==
  LET added == PFTailContribution(choice, input_buffer, p.mono_data,
                                  p.sample_pos, remaining)
  IN [p EXCEPT
        !.calls = Append(@, Call(p.sample_pos, choice, input_buffer, added)),
        !.processed_audio = OverlapAdd(@, p.sample_pos, added, remaining)]

\* The loop is left; if sample_pos < mono_samples the zero-padded rest is
\* processed as one more frame.
PF_Tail ==
  /\ pf.pc = "frames"
  /\ ~PFLoopCondition
  /\ IF pf.sample_pos < Len(pf.mono_data)
     THEN LET remaining    == Len(pf.mono_data) - pf.sample_pos
              input_buffer == PaddedFrame(pf.mono_data, pf.sample_pos,
                                          pf.config.fft_size)
              k            == Len(pf.calls) + 1
          IN \E choice \in process_autotune(k) :
               LET arm == PFTailArms(pf, choice, input_buffer, remaining)
               IN /\ engine_script' = RecordChoice(k, choice)
                  /\ pf' = IF arm.pc = "frames"
                           THEN [arm EXCEPT !.pc = "normalize"] ELSE arm
     ELSE /\ engine_script' = engine_script
          /\ pf' = [pf EXCEPT !.pc = "normalize"]
  /\ UNCHANGED <<progress_chan, PFOthers>>

\* Status("Normalizing audio..."), the global peak scaling
PF_Normalize ==
  /\ pf.pc = "normalize"
  /\ progress_chan' = Send(progress_chan, Status("Normalizing audio..."))
  /\ pf' = [pf EXCEPT
              !.pc = IgnoreSendError(progress_chan, "to_stereo"),
              !.processed_audio = Normalize(@)]
  /\ UNCHANGED <<engine_script, PFOthers>>

\* let output_samples = if spec.channels == 2 { Status(..); duplicate } else { .. }
PF_ToStereo ==
  /\ pf.pc = "to_stereo"
  /\ IF pf.spec.channels = 2
     THEN /\ progress_chan' = Send(progress_chan, Status("Converting to stereo..."))
          /\ pf' = [pf EXCEPT
                      !.pc = IgnoreSendError(progress_chan, "write"),
                      !.output_samples = MonoToStereo(pf.processed_audio)]
     ELSE /\ progress_chan' = progress_chan
          /\ pf' = [pf EXCEPT !.pc = "write",
                              !.output_samples = pf.processed_audio]
  /\ UNCHANGED <<engine_script, PFOthers>>

\* The outcome of WavWriter::create, write_sample and finalize: the first
\* of them that fails (write_sample is only called when there is a sample).
WriteOutcome(integer_samples) ==
  IF io_fault = "create" THEN "create"
  ELSE IF io_fault = "write" /\ integer_samples # <<>> THEN "write"
  ELSE IF io_fault = "finalize" THEN "finalize"
  ELSE "ok"

IoFaults == {"none", "open", "read", "create", "write", "finalize"}

\* The output file an outcome leaves behind.
WrittenFile(io, spec, integer_samples) ==
  IF io = "create" THEN NoFile
  ELSE [state |-> IF io = "ok" THEN "final" ELSE "partial",
        channels |-> spec.channels,
        bits_per_sample |-> spec.bits_per_sample,
        samples |-> IF io = "write" THEN <<>> ELSE integer_samples]

\* Status("Writing output file..."), encoding, the WavWriter calls
PF_Write ==
  /\ pf.pc = "write"
  /\ progress_chan' = Send(progress_chan, Status("Writing output file..."))
  /\ LET integer_samples ==
           EncodeSamples(pf.output_samples, pf.spec.bits_per_sample)
         io == WriteOutcome(integer_samples)
     IN   pf' = [pf EXCEPT
                   !.pc = IF io = "ok"
                          THEN IgnoreSendError(progress_chan, "complete")
                          ELSE "returned",
                   !.integer_samples = integer_samples,
                   !.out_file = WrittenFile(io, pf.spec, integer_samples),
                   !.result =
                      IF io = "create" THEN Error("Failed to create output file")
                      ELSE IF io = "write" THEN Error("Failed to write sample")
                      ELSE IF io = "finalize"
                      THEN Error("Failed to finalize output file")
                      ELSE @]
  /\ UNCHANGED <<engine_script, PFOthers>>

\* Status("Complete!"), ProcessingResult::Success
PF_Complete ==
  /\ pf.pc = "complete"
  /\ progress_chan' = Send(progress_chan, Status("Complete!"))
  /\ pf' = [pf EXCEPT
              !.pc = IgnoreSendError(progress_chan, "returned"),
              !.result = Success(Len(pf.integer_samples))]
  /\ UNCHANGED <<engine_script, PFOthers>>

ProcessFile ==
  \/ PF_Open \/ PF_Read \/ PF_Convert \/ PF_ToMono \/ PF_InitEngine
  \/ PF_Begin \/ PF_Frame \/ PF_Tail \/ PF_Normalize \/ PF_ToStereo
  \/ PF_Write \/ PF_Complete

\* ------------------------------------------------------------------ run_cli
\* The command line: musical settings and correction parameters (strength
\* and transition in hundredths), --list-keys.  --fft-size and --hop-size
\* are `config`.  --verbose only prints and is left out.
DefaultArgs ==
  [key |-> 0, note |-> 0, octave |-> 2, formant |-> 0,
   strength |-> 80, transition |-> 10, list_keys |-> FALSE]

\* The default command line, and each argument in turn set to other values.
ArgsSet ==
  {DefaultArgs}
  \cup {[DefaultArgs EXCEPT !.key = v] : v \in {-1, 23, 24}}
  \cup {[DefaultArgs EXCEPT !.note = v] : v \in {-1, 12, 13}}
  \cup {[DefaultArgs EXCEPT !.octave = v] : v \in {-1, 4, 5}}
  \cup {[DefaultArgs EXCEPT !.formant = v] : v \in {-13, 12, 13}}
  \cup {[DefaultArgs EXCEPT !.strength = v] : v \in {-1, 100, 101}}
  \cup {[DefaultArgs EXCEPT !.transition = v] : v \in {0, 1, 101}}
  \cup {[DefaultArgs EXCEPT !.list_keys = TRUE]}

\* The locals of run_cli on entry, and the process around it.
CLIEntry(args) ==
  [pc |-> "start", args |-> args,
   spec |-> [channels |-> 0, bits_per_sample |-> 0],
   mono_data |-> <<>>, states_created |-> 0, calls |-> <<>>,
   processed_audio |-> <<>>, chunk_count |-> 0, total_chunks |-> 0,
   sample_pos |-> 0, integer_samples |-> <<>>,
   result |-> NoResult, out_file |-> NoFile, exit_code |-> 0]

CLIOthers == <<wav, config, pf, progress_chan, result_chan, app, io_fault, codec>>

\* `return Err(..)` or `?` in run_cli; main prints it and exits with 1.
CLIReturnErr(msg) ==
  [cli EXCEPT !.pc = "exited", !.result = Error(msg), !.exit_code = 1]

\* The first failing check of "Validate arguments", or "" when all pass.
ValidateArgs(args) ==
  IF args.key < 0 \/ args.key >= 24 THEN "Key must be between 0 and 23"
  ELSE IF args.strength < 0 \/ args.strength > 100
  THEN "Pitch correction strength must be between 0.0 and 1.0"
  ELSE IF args.transition < 1 \/ args.transition > 100
  THEN "Transition speed must be between 0.01 and 1.0"
  ELSE IF args.formant < -12 \/ args.formant > 12
  THEN "Formant shift must be between -12 and +12 semitones"
  ELSE IF args.octave < 0 \/ args.octave > 4
  THEN "Octave must be between 0 and 4"
  ELSE ""

\* Cli::parse, --list-keys, argument validation.  The comparison harness
\* starts the CLI once process_file has come back.
CLI_Parse ==
  /\ cli.pc = "start"
  /\ pf.pc \in {"returned", "panicked"}
  /\ cli' = IF cli.args.list_keys
            THEN [cli EXCEPT !.pc = "exited", !.result = Success(0)]
            ELSE IF ValidateArgs(cli.args) # ""
            THEN CLIReturnErr(ValidateArgs(cli.args))
            ELSE [cli EXCEPT !.pc = "open"]
  /\ UNCHANGED <<engine_script, CLIOthers>>

\* WavReader::open(input_path)?, format validation
CLI_Open ==
  /\ cli.pc = "open"
  /\ cli' = IF io_fault = "open"
              THEN CLIReturnErr("Failed to open input file")
              ELSE IF wav.channels \notin SupportedChannels
              THEN CLIReturnErr("Unsupported channel count")
              ELSE IF wav.bits_per_sample \notin SupportedBits
              THEN CLIReturnErr("Unsupported bit depth")
              ELSE [cli EXCEPT
                      !.pc = "read",
                      !.spec = [channels |-> wav.channels,
                                bits_per_sample |-> wav.bits_per_sample]]
  /\ UNCHANGED <<engine_script, CLIOthers>>

\* reader.samples().collect()?, scaling to f32, stereo to mono
CLI_Read ==
  /\ cli.pc = "read"
  /\ cli' = IF io_fault = "read"
              THEN CLIReturnErr("Failed to read samples")
              ELSE [cli EXCEPT
                      !.pc = "begin",
                      !.mono_data = MonoData(wav.samples, cli.spec.channels,
                                             cli.spec.bits_per_sample)]
  /\ UNCHANGED <<engine_script, CLIOthers>>

\* (mono_data.len() + hop_size - 1) / hop_size in usize: with hop_size = 0
\* either the subtraction overflows or the division is by zero.
CLITotalChunks(mono_samples, hop_size) ==
  IF hop_size = 0 THEN {Panicked}
  ELSE {Value((mono_samples + hop_size - 1) \div hop_size)}

\* AutotuneState::new(config), the locals of the frame loop
CLI_Begin ==
  /\ cli.pc = "begin"
  /\ \E total \in CLITotalChunks(Len(cli.mono_data), config.hop_size) :
       cli' = IF total.panic
              THEN [cli EXCEPT !.pc = "exited", !.states_created = @ + 1,
                               !.result = Error("panic"), !.exit_code = 101]
              ELSE [cli EXCEPT
                      !.pc = "frames",
                      !.states_created = @ + 1,
                      !.calls = <<>>,
                      !.processed_audio = <<>>,
                      !.total_chunks = total.value,
                      !.sample_pos = 0,
                      !.chunk_count = 0]
  /\ UNCHANGED <<engine_script, CLIOthers>>

\* while sample_pos + fft_size <= mono_data.len()
CLILoopCondition ==
  cli.sample_pos + config.fft_size <= Len(cli.mono_data)

\* What a full frame adds: the engine's output, or on Err the input frame.
CLIFrameContribution(choice, input_buffer) ==
  IF choice = "err" THEN input_buffer ELSE EngineOutput(choice, input_buffer)

\* match process_autotune(..) { Ok(_) => { resize; add output_buffer }
\*                              Err(e) => { eprintln; resize; add input_buffer } }
CLIFrameArms(c, choice, input_buffer) ==
  LET added == CLIFrameContribution(choice, input_buffer)
  IN [c EXCEPT
        !.calls = Append(@, Call(c.sample_pos, choice, input_buffer, added)),
        !.processed_audio = OverlapAdd(@, c.sample_pos, added, config.fft_size)]

\* One iteration of the frame loop.
CLI_Frame ==
  /\ cli.pc = "frames"
  /\ CLILoopCondition
  /\ LET input_buffer == FullFrame(cli.mono_data, cli.sample_pos, config.fft_size)
         k            == Len(cli.calls) + 1
     IN \E choice \in process_autotune(k) :
          LET arm == CLIFrameArms(cli, choice, input_buffer)
          IN /\ engine_script' = RecordChoice(k, choice)
             /\ cli' = IF arm.pc = "frames"
                       THEN [arm EXCEPT
                               !.sample_pos = NextSamplePos(@, config),
                               !.chunk_count = @ + 1]
                       ELSE arm
  /\ UNCHANGED CLIOthers

\* What the final partial frame adds: `if let Ok(_) = process_autotune(..)`
\* adds the first `remaining` output samples and has no else branch.
CLITailContribution(choice, input_buffer, remaining) ==
  IF choice = "err" THEN <<>>
  ELSE SubSeq(EngineOutput(choice, input_buffer), 1, remaining)

\* if let Ok(_) = process_autotune(..) { resize; add }: on Err the
\* accumulator is left as it is.
CLITailArm(c, choice, input_buffer, remaining) ==
  LET added == CLITailContribution(choice, input_buffer, remaining)
  IN [c EXCEPT
        !.calls = Append(@, Call(c.sample_pos, choice, input_buffer, added)),
        !.processed_audio =
           IF choice = "err" THEN @
           ELSE OverlapAdd(@, c.sample_pos, added, remaining)]

\* The loop is left; if sample_pos < mono_data.len() the zero-padded rest
\* is processed as one more frame.
CLI_Tail ==
  /\ cli.pc = "frames"
  /\ ~CLILoopCondition
  /\ IF cli.sample_pos < Len(cli.mono_data)
     THEN LET remaining    == Len(cli.mono_data) - cli.sample_pos
              input_buffer == PaddedFrame(cli.mono_data, cli.sample_pos,
                                          config.fft_size)
              k            == Len(cli.calls) + 1
          IN \E choice \in process_autotune(k) :
               LET arm == CLITailArm(cli, choice, input_buffer, remaining)
               IN /\ engine_script' = RecordChoice(k, choice)
                  /\ cli' = IF arm.pc = "frames"
                            THEN [arm EXCEPT !.pc = "finish"] ELSE arm
     ELSE /\ engine_script' = engine_script
          /\ cli' = [cli EXCEPT !.pc = "finish"]
  /\ UNCHANGED CLIOthers

\* Normalization, stereo duplication, encoding, the WavWriter calls, Ok(())
CLI_Finish ==
  /\ cli.pc = "finish"
  /\ LET normalized      == Normalize(cli.processed_audio)
         output_samples  == IF cli.spec.channels = 2
                            THEN MonoToStereo(normalized) ELSE normalized
         integer_samples ==
           EncodeSamples(output_samples, cli.spec.bits_per_sample)
         io == WriteOutcome(integer_samples)
     IN   cli' = [cli EXCEPT
                    !.pc = "exited",
                    !.processed_audio = normalized,
                    !.integer_samples = integer_samples,
                    !.out_file = WrittenFile(io, cli.spec, integer_samples),
                    !.result =
                       IF io = "ok" THEN Success(Len(integer_samples))
                       ELSE Error("Failed to write output file"),
                    !.exit_code = IF io = "ok" THEN 0 ELSE 1]
  /\ UNCHANGED <<engine_script, CLIOthers>>

RunCli ==
  \/ CLI_Parse \/ CLI_Open \/ CLI_Read \/ CLI_Begin
  \/ CLI_Frame \/ CLI_Tail \/ CLI_Finish

\* ------------------------------------------------------- pipeline harness
\* process_file called directly with any configuration, its progress
\* receiver held by the caller, and then the CLI run on the same file with
\* the same --fft-size and --hop-size.
RECURSIVE SeqsUpTo(_, _)
SeqsUpTo(S, n) ==
  IF n = 0 THEN {<<>>}
  ELSE LET shorter == SeqsUpTo(S, n - 1)
       IN shorter \cup {Append(q, v) : q \in {r \in shorter : Len(r) = n - 1}, v \in S}

Wavs ==
  [channels : SupportedChannels, bits_per_sample : {16},
   samples : SeqsUpTo(RawValues, MaxSamples)]

\* Positive sizes: hop below, at and above the frame size.
Configs == [fft_size : 1..MaxFftSize, hop_size : 1..MaxHopSize]

\* A zero frame size or a zero hop size.
ZeroConfigs ==
  {c \in [fft_size : 0..MaxFftSize, hop_size : 0..MaxHopSize] :
     c.fft_size = 0 \/ c.hop_size = 0}

\* A plain file and configuration for the runs that vary the format, the
\* command line or the failing file operation.
PlainSamples == <<32767, -16384, -16384>>

PlainConfig == [fft_size |-> 2, hop_size |-> 1]

PlainWav == [channels |-> 1, bits_per_sample |-> 16, samples |-> PlainSamples]

EmptyWav == [channels |-> 1, bits_per_sample |-> 16, samples |-> <<>>]

FormatWavs ==
  [channels : ChannelsSet, bits_per_sample : BitsSet, samples : {PlainSamples}]

\* AutotuneApp::default() as new() fills it: no files, "Ready".
AppNew ==
  [pc |-> "status", input_file |-> FALSE, output_file |-> FALSE,
   is_processing |-> FALSE,
   processing_progress |-> [num |-> 0, den |-> 1],
   processing_status |-> "Ready",
   processing_result |-> NoResult,
   progress_receiver |-> FALSE, result_receiver |-> FALSE,
   runs |-> 0, applied |-> <<>>]

\* Every supported file with every positive configuration; the plain and
\* the empty file with every zero configuration; the plain file in every
\* format; the plain file under every command line and under every
\* failing file operation.
Init ==
  /\ \/ /\ wav \in Wavs
        /\ config \in Configs
        /\ cli = CLIEntry(DefaultArgs)
        /\ io_fault = "none"
     \/ /\ wav \in {PlainWav, EmptyWav}
        /\ config \in ZeroConfigs
        /\ cli = CLIEntry(DefaultArgs)
        /\ io_fault = "none"
     \/ /\ wav \in FormatWavs
        /\ config = PlainConfig
        /\ cli = CLIEntry(DefaultArgs)
        /\ io_fault = "none"
     \/ /\ wav = PlainWav
        /\ config = PlainConfig
        /\ \E args \in ArgsSet : cli = CLIEntry(args)
        /\ io_fault = "none"
     \/ /\ wav = PlainWav
        /\ config = PlainConfig
        /\ cli = CLIEntry(DefaultArgs)
        /\ io_fault \in IoFaults
  /\ engine_script = <<>>
  /\ pf = PFEntry(config, "open")
  /\ progress_chan = NewChannel
  /\ result_chan = NewChannel
  /\ app = AppNew
  /\ codec = CodecEntry(0)

\* The caller of process_file drops the receiver it holds.
DropReceiver ==
  /\ progress_chan.rx_alive
  /\ pf.pc \notin {"returned", "panicked"}
  /\ progress_chan' = [progress_chan EXCEPT !.rx_alive = FALSE, !.queue = <<>>]
  /\ UNCHANGED <<wav, config, engine_script, pf, result_chan, cli, app, io_fault,
                 codec>>

Next == ProcessFile \/ RunCli \/ DropReceiver

Spec == Init /\ [][Next]_vars

\* -------------------------------------------------------------- AutotuneApp
\* autotune_config of start_processing: fft_size 1024, hop_size 256 (scaled)
GuiConfig == [fft_size |-> GuiFftSize, hop_size |-> GuiHopSize]

AppOthers == <<wav, config, engine_script, cli, io_fault, codec>>

\* What update_processing_status does with one received ProcessingProgress.
ApplyProgress(a, msg) ==
  IF msg.kind = "Progress"
  THEN [a EXCEPT !.processing_progress = [num |-> msg.num, den |-> msg.den],
                 !.processing_status = "Processing... %",
                 !.applied = Append(@, msg)]
  ELSE [a EXCEPT !.processing_status = msg.text,
                 !.applied = Append(@, msg)]

\* Mutant of ApplyResult: is_processing is not reset.
ApplyResult_KeepProcessing(a, result) ==
  [a EXCEPT !.processing_result = result,
            !.processing_status =
               IF result.kind = "Success" THEN "Completed" ELSE "Error",
            !.applied = Append(@, [kind |-> "Outcome", text |-> result.kind,
                                   num |-> 0, den |-> 1])]

\* What update_processing_status does with the received ProcessingResult,
\* up to the clean-up of the channels.
ApplyResult(a, result) ==
  [a EXCEPT !.is_processing = FALSE,
            !.processing_result = result,
            !.processing_status =
               IF result.kind = "Success" THEN "Completed" ELSE "Error",
            !.applied = Append(@, [kind |-> "Outcome", text |-> result.kind,
                                   num |-> 0, den |-> 1])]

\* Mutant of CleanUpReceivers: the progress receiver is kept.
CleanUpReceivers_KeepProgress(a) ==
  [a EXCEPT !.result_receiver = FALSE]

\* "Clean up channels": self.progress_receiver = None; self.result_receiver = None
CleanUpReceivers(a) ==
  [a EXCEPT !.progress_receiver = FALSE, !.result_receiver = FALSE]

\* Dropping a Receiver: the channel is disconnected, what is queued is lost.
DropRx(chan) == [chan EXCEPT !.rx_alive = FALSE, !.queue = <<>>]

\* A channel as the receiver field `held` leaves it.
AfterCleanUp(chan, held) == IF held THEN chan ELSE DropRx(chan)

\* One successful receiver.try_recv() of the `while let Ok(progress)` loop
UI_RecvProgress ==
  /\ app.pc = "status"
  /\ app.progress_receiver
  /\ progress_chan.queue # <<>>
  /\ app' = ApplyProgress(app, Head(progress_chan.queue))
  /\ progress_chan' = [progress_chan EXCEPT !.queue = Tail(@)]
  /\ UNCHANGED <<pf, result_chan, AppOthers>>

\* The loop ends: no receiver, or try_recv() finds nothing
UI_ProgressDone ==
  /\ app.pc = "status"
  /\ ~app.progress_receiver \/ progress_chan.queue = <<>>
  /\ app' = [app EXCEPT !.pc = "result"]
  /\ UNCHANGED <<pf, progress_chan, result_chan, AppOthers>>

\* "Check for completion": one try_recv() on the result receiver
UI_CheckResult ==
  /\ app.pc = "result"
  /\ IF app.result_receiver /\ result_chan.queue # <<>>
     THEN LET cleaned == CleanUpReceivers(ApplyResult(app, Head(result_chan.queue)))
          IN /\ app' = [cleaned EXCEPT !.pc = "widgets"]
             /\ result_chan' =
                  AfterCleanUp([result_chan EXCEPT !.queue = Tail(@)],
                               cleaned.result_receiver)
             /\ progress_chan' =
                  AfterCleanUp(progress_chan, cleaned.progress_receiver)
     ELSE /\ app' = [app EXCEPT !.pc = "widgets"]
          /\ UNCHANGED <<result_chan, progress_chan>>
  /\ UNCHANGED <<pf, AppOthers>>

\* The frame is drawn and no button is clicked.
UI_NoClick ==
  /\ app.pc = "widgets"
  /\ app' = [app EXCEPT !.pc = "status"]
  /\ UNCHANGED <<pf, progress_chan, result_chan, AppOthers>>

\* select_input_file with a picked path: load_audio_info opens the file
UI_SelectInput ==
  /\ app.pc = "widgets"
  /\ app' = [app EXCEPT
               !.pc = "status",
               !.input_file = TRUE,
               !.processing_status =
                  IF io_fault = "open" THEN "Error loading file" ELSE "Loaded",
               !.processing_result = NoResult]
  /\ UNCHANGED <<pf, progress_chan, result_chan, AppOthers>>

\* select_output_file with a picked path
UI_SelectOutput ==
  /\ app.pc = "widgets"
  /\ app' = [app EXCEPT !.pc = "status", !.output_file = TRUE]
  /\ UNCHANGED <<pf, progress_chan, result_chan, AppOthers>>

\* Mutant of StartEnabled: the button does not look at is_processing.
StartEnabled_IgnoreProcessing(a) == a.input_file /\ a.output_file

\* add_enabled(!is_processing && input_file.is_some() && output_file.is_some(), ..)
StartEnabled(a) == ~a.is_processing /\ a.input_file /\ a.output_file

\* start_processing on the fields `a`: the fields it leaves, and whether it
\* has created the channels and spawned the thread.
StartProcessing(a) ==
  IF ~a.input_file \/ ~a.output_file
  THEN [spawned |-> FALSE,
        app |-> [a EXCEPT
                   !.processing_status = "Please select input and output files"]]
  ELSE [spawned |-> TRUE,
        app |-> [a EXCEPT
                   !.progress_receiver = TRUE,
                   !.result_receiver = TRUE,
                   !.is_processing = TRUE,
                   !.processing_progress = [num |-> 0, den |-> 1],
                   !.processing_status = "Processing...",
                   !.processing_result = NoResult,
                   !.runs = @ + 1,
                   !.applied = <<>>]]

\* The start button is clicked: start_processing
UI_Start ==
  /\ app.pc = "widgets"
  /\ StartEnabled(app)
  /\ app.runs < MaxRuns
  /\ app' = [StartProcessing(app).app EXCEPT !.pc = "status"]
  /\ IF StartProcessing(app).spawned
     THEN /\ progress_chan' = NewChannel
          /\ result_chan' = NewChannel
          /\ pf' = PFEntry(GuiConfig, "open")
     ELSE UNCHANGED <<pf, progress_chan, result_chan>>
  /\ UNCHANGED AppOthers

\* The spawned closure after process_file: let _ = result_tx.send(result)
Thread_SendResult ==
  /\ pf.pc = "returned"
  /\ result_chan' = Send(result_chan, pf.result)
  /\ pf' = [pf EXCEPT !.pc = "exited"]
  /\ UNCHANGED <<progress_chan, app, AppOthers>>

\* The files the GUI is run on: empty or one sample longer than a frame,
\* supported or not.
GuiSamples(n) == [i \in 1..n |-> IF i % 2 = 1 THEN 32767 ELSE -16384]

GuiWavs ==
  {[channels |-> c, bits_per_sample |-> 16, samples |-> GuiSamples(n)] :
     c \in SupportedChannels, n \in {0, GuiFftSize + 1}}
  \cup {[channels |-> 3, bits_per_sample |-> 16, samples |-> GuiSamples(1)]}

InitGui ==
  /\ wav \in GuiWavs
  /\ config = GuiConfig
  /\ io_fault \in IoFaults
  /\ engine_script = <<>>
  /\ pf = PFEntry(GuiConfig, "idle")
  /\ progress_chan = NewChannel
  /\ result_chan = NewChannel
  /\ cli = CLIEntry(DefaultArgs)
  /\ app = AppNew
  /\ codec = CodecEntry(0)

NextGui ==
  \/ ProcessFile \/ Thread_SendResult
  \/ UI_RecvProgress \/ UI_ProgressDone \/ UI_CheckResult
  \/ UI_NoClick \/ UI_SelectInput \/ UI_SelectOutput \/ UI_Start

SpecGui == InitGui /\ [][NextGui]_vars

\* --------------------------------------------------- encode, then decode
CodecOthers ==
  <<wav, config, engine_script, pf, progress_chan, result_chan, cli, app,
    io_fault>>

\* integer_samples.push((sample * output_scale).round() as i32)
Codec_Encode ==
  /\ codec.pc = "input"
  /\ codec' = [codec EXCEPT !.pc = "encoded",
                            !.encoded = EncodeSampleFine(codec.x)]
  /\ UNCHANGED CodecOthers

\* audio_data.push(sample as f32 * scale_factor) on what was written
Codec_Decode ==
  /\ codec.pc = "encoded"
  /\ codec' = [codec EXCEPT !.pc = "decoded",
                            !.decoded = DecodeSampleFine(codec.encoded)]
  /\ UNCHANGED CodecOthers

\* Every canonical sample in [-1, 1] on the fine grid.
InitCodec ==
  /\ wav = EmptyWav
  /\ config = PlainConfig
  /\ io_fault = "none"
  /\ engine_script = <<>>
  /\ pf = PFEntry(PlainConfig, "idle")
  /\ progress_chan = NewChannel
  /\ result_chan = NewChannel
  /\ cli = CLIEntry(DefaultArgs)
  /\ app = AppNew
  /\ \E x \in (-FineUnit)..FineUnit : codec = CodecEntry(x)

NextCodec == Codec_Encode \/ Codec_Decode

SpecCodec == InitCodec /\ [][NextCodec]_vars

\* One step of the UI: a poll of update_processing_status or the widgets.
UIStep ==
  \/ UI_RecvProgress \/ UI_ProgressDone \/ UI_CheckResult
  \/ UI_NoClick \/ UI_SelectInput \/ UI_SelectOutput \/ UI_Start

\* The spawned thread is scheduled until it ends, and while is_processing
\* update() asks for the next repaint, so the UI keeps polling.
SpecGuiFair ==
  /\ SpecGui
  /\ WF_vars(ProcessFile)
  /\ WF_vars(Thread_SendResult)
  /\ WF_vars(app.is_processing /\ UIStep)

\* =================================================================== claims
\* The frame schedule in closed form, for hop_size >= 1.
FullFrameCount(len, fft_size, hop_size) ==
  IF len >= fft_size THEN (len - fft_size) \div hop_size + 1 ELSE 0

HasPartialFrame(len, fft_size, hop_size) ==
  FullFrameCount(len, fft_size, hop_size) * hop_size < len

ScheduledFrames(len, fft_size, hop_size) ==
  FullFrameCount(len, fft_size, hop_size)
    + (IF HasPartialFrame(len, fft_size, hop_size) THEN 1 ELSE 0)

ValidConfig(cfg) == 1 <= cfg.hop_size /\ cfg.hop_size <= cfg.fft_size

SupportedFormat == 
  wav.channels \in SupportedChannels /\ wav.bits_per_sample \in SupportedBits

\* The contribution of a frame: the engine's output, or the input on Err.
Contribution(call) ==
  IF call.choice = "err" THEN call.input
  ELSE EngineOutput(call.choice, call.input)

\* The frame wrote index i (1-based) of the accumulator.
Covers(call, i) == call.pos < i /\ i <= call.pos + Len(call.added)

Covering(calls, i) == {k \in 1..Len(calls) : Covers(calls[k], i)}

RECURSIVE CoverSum(_, _)
CoverSum(calls, i) ==
  IF calls = <<>> THEN 0
  ELSE (IF Covers(Head(calls), i)
        THEN Contribution(Head(calls))[i - Head(calls).pos] ELSE 0)
       + CoverSum(Tail(calls), i)

AccumulatorIsSum(p) ==
  \A i \in 1..Len(p.processed_audio) :
    p.processed_audio[i] = CoverSum(p.calls, i)

\* C1: in both pipelines, during and after the frame loop and the tail and
\* before normalization, every accumulator index holds exactly the sum of
\* the contributions (engine output, or input on Err) of the frames that
\* wrote it; an index no frame wrote holds 0.
C1_AccumulatorIsSum ==
  /\ pf.pc \in {"frames", "normalize"} => AccumulatorIsSum(pf)
  /\ cli.pc \in {"frames", "finish"} => AccumulatorIsSum(cli)

OverlapWithFallback(calls) ==
  \E i \in 1..MaxSamples, k1, k2 \in 1..Len(calls) :
    /\ {k1, k2} \subseteq Covering(calls, i)
    /\ calls[k1].choice = "err"
    /\ calls[k2].choice = "boost"

\* Both pipelines stand before normalization with an index that a failed
\* and a boosted frame both wrote.
C1_Witness ==
  /\ cli.pc = "finish"
  /\ OverlapWithFallback(cli.calls)
  /\ OverlapWithFallback(pf.calls)
  /\ cli.processed_audio # <<>>

Min2(a, b) == IF a <= b THEN a ELSE b

FallbackAdded(p, cfg) ==
  \A k \in 1..Len(p.calls) :
    p.calls[k].choice = "err" =>
      p.calls[k].added =
        SubSeq(p.mono_data, p.calls[k].pos + 1,
               p.calls[k].pos
                 + Min2(cfg.fft_size, Len(p.mono_data) - p.calls[k].pos))

\* C2: whenever the engine fails on a frame, full or final partial, in
\* process_file or in run_cli, the frame's original input samples are
\* what is added to the accumulator.
C2_FallbackAddsInput ==
  /\ FallbackAdded(pf, pf.config)
  /\ FallbackAdded(cli, config)

PFPastLoop ==
  pf.pc \in {"normalize", "to_stereo", "write", "complete", "returned", "exited"}

PFFrameTotal ==
  ScheduledFrames(Len(pf.mono_data), pf.config.fft_size, pf.config.hop_size)

\* C3: whatever frames the engine fails on, process_file leaves the frame
\* loop only when every scheduled frame is processed, goes on to write the
\* file and returns Success; it returns Error only for an unsupported
\* format or a failed file operation.
C3_EngineErrorsNeverFatal ==
  /\ PFPastLoop /\ pf.result.kind # "Error" => Len(pf.calls) = PFFrameTotal
  /\ pf.pc = "returned" /\ io_fault = "none" /\ SupportedFormat =>
       /\ pf.result.kind = "Success"
       /\ pf.out_file.state = "final"
  /\ pf.result.kind = "Error" => io_fault # "none" \/ ~SupportedFormat

\* process_file has returned Success after three or more frames, all failed.
C3_Witness ==
  /\ pf.pc = "returned"
  /\ pf.result.kind = "Success"
  /\ Len(pf.calls) >= 3
  /\ \A k \in 1..Len(pf.calls) : pf.calls[k].choice = "err"

\* C4: a run of process_file creates one engine state, before the first
\* engine call; the k-th engine call is on the frame at offset
\* (k - 1) * hop_size (zero-padded if partial), only the last call may be on
\* a partial frame, and once the loop and the tail are done there was one
\* call per scheduled frame.
C4_OneStateFramesInOrder ==
  /\ pf.states_created <= 1
  /\ pf.calls # <<>> => pf.states_created = 1
  /\ \A k \in 1..Len(pf.calls) :
       /\ pf.calls[k].pos = (k - 1) * pf.config.hop_size
       /\ pf.calls[k].input =
            PaddedFrame(pf.mono_data, pf.calls[k].pos, pf.config.fft_size)
       /\ k < Len(pf.calls) =>
            pf.calls[k].pos + pf.config.fft_size <= Len(pf.mono_data)
       /\ k > 1 => pf.calls[k].pos > pf.calls[k - 1].pos
  /\ pf.calls # <<>> => Len(pf.calls) <= PFFrameTotal
  /\ PFPastLoop => Len(pf.calls) = PFFrameTotal

\* process_file is past the tail after three or more calls, the first of
\* them failed and the last on a partial frame.
C4_Witness ==
  /\ pf.pc = "normalize"
  /\ Len(pf.calls) >= 3
  /\ pf.calls[1].choice = "err"
  /\ pf.calls[Len(pf.calls)].pos + pf.config.fft_size > Len(pf.mono_data)

InvalidConfig(cfg) ==
  cfg.hop_size = 0 \/ cfg.fft_size = 0 \/ cfg.hop_size > cfg.fft_size

\* C5: a run with a zero hop size, a zero frame size or a hop size above
\* the frame size is rejected with an error before any frame is processed:
\* no engine call, no panic, no output file, in neither pipeline.
C5_InvalidConfigRejected ==
  InvalidConfig(config) =>
    /\ pf.calls = <<>>
    /\ pf.pc # "panicked"
    /\ pf.out_file.state = "absent"
    /\ pf.pc = "returned" => pf.result.kind = "Error"
    /\ cli.calls = <<>>
    /\ cli.exit_code # 101
    /\ cli.out_file.state = "absent"
    /\ cli.pc = "exited" => cli.result.kind = "Error"

\* C6: on the same file, with the same frame and hop size (here a valid
\* pair) and the same engine answers, run_cli and process_file end with
\* the same outcome and the same output file.
C6_SameOutputBothPipelines ==
  /\ pf.pc = "returned"
  /\ cli.pc = "exited"
  /\ cli.args = DefaultArgs
  /\ ValidConfig(config)
  => /\ pf.result.kind = cli.result.kind
     /\ pf.out_file = cli.out_file

PartialFrameAddsRest(p, cfg) ==
  \A k \in 1..Len(p.calls) :
    p.calls[k].pos + cfg.fft_size > Len(p.mono_data) =>
      Len(p.calls[k].added) = Len(p.mono_data) - p.calls[k].pos

\* C7: for 1 <= hop_size <= fft_size, in both pipelines: the accumulator
\* never grows beyond the input, the final partial frame adds exactly the
\* len(input) - offset samples that are in range, and after the tail the
\* accumulator is as long as the input, whatever the engine answered.
C7_AccumulatorAsLongAsInput ==
  ValidConfig(config) =>
    /\ Len(pf.processed_audio) <= Len(pf.mono_data)
    /\ Len(cli.processed_audio) <= Len(cli.mono_data)
    /\ PartialFrameAddsRest(pf, pf.config)
    /\ PartialFrameAddsRest(cli, config)
    /\ pf.pc = "normalize" => Len(pf.processed_audio) = Len(pf.mono_data)
    /\ cli.pc = "finish" => Len(cli.processed_audio) = Len(cli.mono_data)

AllNoop(calls) == \A k \in 1..Len(calls) : calls[k].choice = "noop"

\* C8: with an engine that returns every frame unchanged and
\* hop_size = fft_size, the accumulator before normalization is the mono
\* input, sample for sample, whatever the input length.
C8_IdentityWithoutOverlap ==
  /\ pf.pc = "normalize" /\ AllNoop(pf.calls)
       /\ pf.config.hop_size = pf.config.fft_size /\ pf.config.fft_size >= 1
       => pf.processed_audio = pf.mono_data
  /\ cli.pc = "finish" /\ AllNoop(cli.calls)
       /\ config.hop_size = config.fft_size /\ config.fft_size >= 1
       => cli.processed_audio = cli.mono_data

\* process_file stands before normalization after a full frame and a
\* partial one, not overlapping, both returned unchanged.
C8_Witness ==
  /\ pf.pc = "normalize"
  /\ AllNoop(pf.calls)
  /\ pf.config.hop_size = pf.config.fft_size
  /\ Len(pf.calls) = 2
  /\ Len(pf.mono_data) % pf.config.fft_size # 0
  /\ pf.processed_audio = pf.mono_data

Last(seq) == seq[Len(seq)]

OutcomeApplied == app.applied # <<>> /\ Last(app.applied).kind = "Outcome"

RECURSIVE RefFrames(_, _, _, _, _, _)
\* The accumulator process_file builds from the mono input, the
\* configuration and the engine's answers alone.
RefFrames(acc, pos, k, mono, cfg, script) ==
  IF pos + cfg.fft_size <= Len(mono)
  THEN RefFrames(OverlapAdd(acc, pos,
                            PFFrameContribution(script[k],
                               FullFrame(mono, pos, cfg.fft_size)),
                            cfg.fft_size),
                 pos + cfg.hop_size, k + 1, mono, cfg, script)
  ELSE IF pos < Len(mono)
  THEN OverlapAdd(acc, pos,
                  PFTailContribution(script[k],
                     PaddedFrame(mono, pos, cfg.fft_size),
                     mono, pos, Len(mono) - pos),
                  Len(mono) - pos)
  ELSE acc

RefIntegerSamples ==
  LET mono   == MonoData(wav.samples, wav.channels, wav.bits_per_sample)
      normal == Normalize(RefFrames(<<>>, 0, 1, mono, config, engine_script))
      output == IF wav.channels = 2 THEN MonoToStereo(normal) ELSE normal
  IN EncodeSamples(output, wav.bits_per_sample)

RefFormatOk ==
  wav.channels \in SupportedChannels /\ wav.bits_per_sample \in SupportedBits

\* The kind of outcome and the file that the input, the configuration, the
\* engine's answers and the file system determine.
RefResultKind ==
  IF io_fault \in {"open", "read"} \/ ~RefFormatOk THEN "Error"
  ELSE IF WriteOutcome(RefIntegerSamples) = "ok" THEN "Success" ELSE "Error"

RefOutFile ==
  IF io_fault \in {"open", "read"} \/ ~RefFormatOk THEN NoFile
  ELSE WrittenFile(WriteOutcome(RefIntegerSamples),
                   [channels |-> wav.channels,
                    bits_per_sample |-> wav.bits_per_sample],
                   RefIntegerSamples)

\* C10: process_file never waits for and never fails because of the
\* receiver: while it runs its next step is always enabled, it panics only
\* on the chunk-count arithmetic, and its outcome and the file it writes are
\* those determined by the input, the configuration, the engine's answers
\* and the file system, whether the receiver is alive, unpolled or dropped.
C10_ProducerIndependentOfConsumer ==
  /\ pf.pc \notin {"idle", "returned", "panicked", "exited"} => ENABLED ProcessFile
  /\ pf.pc = "panicked" =>
       Panicked \in PFTotalChunks(Len(pf.mono_data), pf.config.fft_size,
                                  pf.config.hop_size)
  /\ pf.pc = "returned" =>
       /\ pf.result.kind = RefResultKind
       /\ pf.out_file = RefOutFile
       /\ pf.result.kind = "Success" =>
            pf.result.samples_processed = Len(RefIntegerSamples)

\* process_file has returned Success with its file written although the
\* receiver was dropped and sends of the run failed.
C10_Witness ==
  /\ pf.pc = "returned"
  /\ ~progress_chan.rx_alive
  /\ pf.calls # <<>>
  /\ pf.result.kind = "Success"
  /\ pf.out_file.state = "final"
  /\ pf.out_file.samples = RefIntegerSamples

\* C11: under fair scheduling of the thread and of the UI polling, a run
\* that start_processing started is eventually over for the UI:
\* is_processing is false again and processing_result holds its outcome.
C11_RunEventuallyEnds_P ==
  app.is_processing ~>
    (~app.is_processing /\ app.processing_result.kind \in {"Success", "Error"})

\* The UI has received the outcome of a run it started.
C11_Witness ==
  /\ app.runs >= 1
  /\ ~app.is_processing
  /\ app.processing_result.kind \in {"Success", "Error"}
  /\ pf.pc = "exited"

CeilDiv(a, b) == (a + b - 1) \div b

IsProgress(msg) == msg.kind = "Progress"

\* The Progress events of the run, in the order process_file sent them.
ProgressEvents == SelectSeq(progress_chan.sent, IsProgress)

\* C12: for a valid frame and hop size, the k-th Progress event of
\* process_file carries the fraction k / ceil(len(input) / hop_size), and
\* run_cli computes its percentage from the same two numbers.
C12_ProgressIsFramesOverCeil ==
  ValidConfig(config) =>
    /\ \A k \in 1..Len(ProgressEvents) :
         ProgressEvents[k].num * CeilDiv(Len(pf.mono_data), config.hop_size)
           = k * ProgressEvents[k].den
    /\ cli.pc \in {"frames", "finish"} =>
         /\ cli.total_chunks = CeilDiv(Len(cli.mono_data), config.hop_size)
         /\ cli.chunk_count <= Len(cli.calls)
         /\ cli.chunk_count >= Len(cli.calls) - 1

\* C13: every Progress value process_file sends is a finite fraction in
\* [0, 1], whatever the input length and the frame and hop size the frame
\* loop runs with: its denominator is not 0 and not below its numerator.
C13_ProgressInUnitRange ==
  \A k \in 1..Len(ProgressEvents) :
    /\ ProgressEvents[k].den > 0
    /\ 0 <= ProgressEvents[k].num
    /\ ProgressEvents[k].num <= ProgressEvents[k].den

\* The Progress events the UI has applied in the current run, in order.
AppliedProgress == SelectSeq(app.applied, IsProgress)

\* C14: under every interleaving of the thread and the UI poll, the
\* messages the UI has applied are, in order, the first messages
\* process_file sent, the applied fractions never decrease from one to the
\* next, and processing_progress is the last of them (0 before the first).
C14_AppliedInOrderSent ==
  /\ \A i \in 1..Len(app.applied) :
       app.applied[i].kind # "Outcome" =>
         /\ i <= Len(progress_chan.sent)
         /\ app.applied[i] = progress_chan.sent[i]
  /\ \A i, j \in 1..Len(AppliedProgress) :
       i < j => AppliedProgress[i].num * AppliedProgress[j].den
                  <= AppliedProgress[j].num * AppliedProgress[i].den
  /\ app.processing_progress =
       IF AppliedProgress = <<>> THEN [num |-> 0, den |-> 1]
       ELSE [num |-> Last(AppliedProgress).num, den |-> Last(AppliedProgress).den]

\* The UI has applied two Progress events of a run whose thread has sent
\* more messages than the UI has applied.
C14_Witness ==
  /\ Len(AppliedProgress) >= 2
  /\ app.processing_progress.num >= 2
  /\ app.is_processing
  /\ Len(progress_chan.sent) > Len(app.applied)

UnsupportedInput ==
  wav.channels \notin {1, 2} \/ wav.bits_per_sample \notin {16, 24, 32}

\* C15: an input with a channel count other than 1 or 2, or a bit depth
\* other than 16, 24 or 32, ends the run with an error before any frame
\* processing: in neither pipeline is an engine state created, an engine
\* call made, a Progress event sent or an output file created.
C15_UnsupportedFormatRejected ==
  UnsupportedInput =>
    /\ pf.pc \in {"idle", "open", "returned"}
    /\ pf.pc = "returned" => pf.result.kind = "Error"
    /\ pf.states_created = 0 /\ pf.calls = <<>>
    /\ ProgressEvents = <<>>
    /\ pf.out_file = NoFile
    /\ cli.pc \in {"start", "open", "exited"}
    /\ cli.pc = "exited" => cli.result.kind = "Error" /\ cli.exit_code = 1
    /\ cli.states_created = 0 /\ cli.calls = <<>>
    /\ cli.out_file = NoFile
    /\ engine_script = <<>>

\* Both pipelines have ended with an error on a three-channel file that
\* could be opened.
C15_Witness ==
  /\ wav.channels = 3 /\ wav.bits_per_sample = 16
  /\ io_fault = "none"
  /\ pf.pc = "returned" /\ pf.result.kind = "Error"
  /\ cli.pc = "exited" /\ cli.result.kind = "Error"

RECURSIVE FracLeq(_, _, _, _)
\* a / b <= c / d for a, c >= 0 and b, d > 0, compared by integer parts
\* and reciprocals of the remainders, without forming a product.
FracLeq(a, b, c, d) ==
  IF a \div b # c \div d THEN a \div b < c \div d
  ELSE IF a % b = 0 THEN TRUE
  ELSE IF c % d = 0 THEN FALSE
  ELSE FracLeq(d, c % d, b, a % b)

\* y is a nearest grid value to a * 0.95 / peak, amplitudes in units of
\* 1 / Unit: |y - 19 * Unit * a / (20 * peak)| <= 1/2.
NearestScaled(a, peak, y) ==
  /\ y = 0 \/ FracLeq(2 * y - 1, 2 * (Unit \div 4), 19 * a, 5 * peak)
  /\ FracLeq(19 * a, 5 * peak, 2 * y + 1, 2 * (Unit \div 4))

\* post is pre after the one normalization pass the claim describes.
NormalizedFrom(pre, post) ==
  /\ Len(post) = Len(pre)
  /\ IF SeqMaxAbs(pre) > Unit
     THEN \A i \in 1..Len(pre) :
            /\ pre[i] >= 0 => post[i] >= 0
            /\ pre[i] <= 0 => post[i] <= 0
            /\ NearestScaled(Abs(pre[i]), SeqMaxAbs(pre), Abs(post[i]))
     ELSE post = pre

\* The accumulator as the frames of the run left it, from the record of
\* the engine calls.
Accumulated(p) == [i \in 1..Len(p.processed_audio) |-> CoverSum(p.calls, i)]

PFNormalized == pf.pc \in {"to_stereo", "write", "complete"}

CLINormalized ==
  cli.pc = "exited" /\ cli.states_created = 1 /\ cli.exit_code # 101

\* C16: after the normalization step of either pipeline the samples are the
\* accumulated ones, each multiplied by 0.95 / peak (to the nearest grid
\* value) if the peak of the whole accumulator is above 1.0, and unchanged
\* if it is 1.0 or less, the empty and the all-zero accumulator included.
C16_NormalizeOnlyAboveOne ==
  /\ PFNormalized => NormalizedFrom(Accumulated(pf), pf.processed_audio)
  /\ CLINormalized => NormalizedFrom(Accumulated(cli), cli.processed_audio)

\* process_file has scaled the accumulator of several frames whose peak
\* was above 1.0: the peak is now 0.95.
C16_Witness ==
  /\ PFNormalized
  /\ SeqMaxAbs(Accumulated(pf)) > Unit
  /\ SeqMaxAbs(pf.processed_audio) = RoundDiv(19 * Unit, 20)
  /\ Len(pf.calls) >= 2

\* Raw sample i (0-based) of the input file as an amplitude: raw / 32768.
ScaledRaw(i) ==
  IF i < Len(wav.samples) THEN (wav.samples[i + 1] * Unit) \div FullScale16
  ELSE 0

\* mono is the mono sequence the claim describes for the input file.
DownmixOf(mono) ==
  IF wav.channels = 2
  THEN /\ Len(mono) = CeilDiv(Len(wav.samples), 2)
       /\ \A j \in 0..(Len(mono) - 1) :
            2 * mono[j + 1] = ScaledRaw(2 * j) + ScaledRaw(2 * j + 1)
  ELSE /\ Len(mono) = Len(wav.samples)
       /\ \A j \in 0..(Len(mono) - 1) : mono[j + 1] = ScaledRaw(j)

PFDecoded ==
  pf.pc \in {"init_engine", "begin", "frames", "normalize", "to_stereo",
             "write", "complete"}

CLIDecoded == cli.pc \in {"begin", "frames", "finish"}

\* C17: for a 2-channel input of n interleaved samples both pipelines
\* derive ceil(n / 2) mono samples, sample j the mean of scaled raw samples
\* 2j and 2j + 1 with a missing last one taken as 0.0; for a 1-channel
\* input the mono sequence is the scaled input, of length n.
C17_DownmixIsPairMean ==
  /\ PFDecoded => DownmixOf(pf.mono_data)
  /\ CLIDecoded => DownmixOf(cli.mono_data)

\* Both pipelines have decoded a 2-channel file of three samples into two
\* mono samples.
C17_Witness ==
  /\ wav.channels = 2 /\ Len(wav.samples) = 3
  /\ pf.pc = "returned" /\ Len(pf.mono_data) = 2
  /\ CLIDecoded /\ cli.mono_data = pf.mono_data
  /\ 2 * cli.mono_data[2] = ScaledRaw(2)

\* written holds the channels of the output for `mono` result samples.
ChannelsOf(written, mono, channels) ==
  IF channels = 2
  THEN /\ Len(written) = 2 * Len(mono)
       /\ \A j \in 1..Len(mono) :
            /\ written[2 * j - 1] = written[2 * j]
            /\ written[2 * j] = EncodeSample(mono[j], 16)
  ELSE /\ Len(written) = Len(mono)
       /\ \A j \in 1..Len(mono) : written[j] = EncodeSample(mono[j], 16)

\* C18: the output either pipeline writes for a 2-channel input holds two
\* integer samples per mono result sample, the left and the right one
\* identical; for a 1-channel input it holds one per mono result sample.
C18_StereoPairsIdentical ==
  /\ pf.out_file.state = "final" =>
       /\ pf.out_file.channels = wav.channels
       /\ ChannelsOf(pf.out_file.samples, pf.processed_audio, wav.channels)
  /\ cli.out_file.state = "final" =>
       /\ cli.out_file.channels = wav.channels
       /\ ChannelsOf(cli.out_file.samples, cli.processed_audio, wav.channels)

\* Both pipelines have written two pairs of non-silent samples for a
\* 2-channel input.
C18_Witness ==
  /\ wav.channels = 2
  /\ pf.out_file.state = "final" /\ cli.out_file.state = "final"
  /\ Len(pf.out_file.samples) = 4 /\ Len(cli.out_file.samples) = 4
  /\ pf.out_file.samples[3] # 0 /\ cli.out_file.samples[4] # 0

\* C19: a canonical sample in [-1, 1], encoded at 16 bits and decoded
\* again, differs from the original by at most one quantization step,
\* 1 / 32768 (FineUnit \div FullScale16 units of the fine grid).
C19_RoundTripWithinOneStep ==
  codec.pc = "decoded" =>
    Abs(codec.decoded - codec.x) <= FineUnit \div FullScale16

\* The number of frames of the executed schedule that wrote index i
\* (1-based) of the accumulator.
Coverage(i) == Cardinality(Covering(pf.calls, i))

\* C20 as stated: for 1 <= hop_size <= fft_size every output sample index,
\* those at the start and at the end included, is covered by exactly
\* ceil(fft_size / hop_size) frames of the schedule process_file executed.
C20_CoverageIsCeil ==
  ValidConfig(config) /\ pf.pc = "normalize" =>
    \A i \in 1..Len(pf.mono_data) :
      Coverage(i) = CeilDiv(config.fft_size, config.hop_size)

\* C20 amended: every output sample index is covered by at least one and
\* at most ceil(fft_size / hop_size) frames; an index i (0-based) below
\* fft_size - hop_size is covered by floor(i / hop_size) + 1 frames, or by
\* all frames of a shorter schedule; and when hop_size divides fft_size an
\* index from fft_size - hop_size up to (number of frames) * hop_size - 1
\* is covered by exactly fft_size / hop_size frames.
C20_CoverageAtMostCeil ==
  ValidConfig(config) /\ pf.pc = "normalize" =>
    \A i \in 1..Len(pf.mono_data) :
      /\ Coverage(i) >= 1
      /\ Coverage(i) <= CeilDiv(config.fft_size, config.hop_size)
      /\ i - 1 < config.fft_size - config.hop_size =>
           Coverage(i) = Min2((i - 1) \div config.hop_size + 1, Len(pf.calls))
      /\ /\ config.fft_size % config.hop_size = 0
         /\ i - 1 >= config.fft_size - config.hop_size
         /\ i - 1 < Len(pf.calls) * config.hop_size
         => Coverage(i) = config.fft_size \div config.hop_size

\* process_file has run overlapping frames: the first index is covered by
\* one frame, a later one by ceil(fft_size / hop_size) = 3.
C20_Witness ==
  /\ ValidConfig(config) /\ pf.pc = "normalize"
  /\ config.hop_size < config.fft_size
  /\ Len(pf.mono_data) >= 1 /\ Coverage(1) = 1
  /\ \E i \in 1..Len(pf.mono_data) :
       Coverage(i) = 3 /\ CeilDiv(config.fft_size, config.hop_size) = 3

\* An argument of the command line is outside the range its help text
\* gives (strength and transition in hundredths).
ArgsOutOfRange(args) ==
  \/ args.key \notin 0..23
  \/ args.note \notin 0..12
  \/ args.octave \notin 0..4
  \/ args.formant \notin (-12)..12
  \/ args.strength \notin 0..100
  \/ args.transition \notin 1..100

\* C21: run_cli rejects every invocation with a key, note mode, octave,
\* formant shift, strength or transition speed out of range before it opens
\* the input and before any frame is processed, the process then ends with
\* a non-zero exit code, and a processing invocation ends with exit code 0
\* only after a successful run.
C21_OutOfRangeArgsRejected ==
  /\ ArgsOutOfRange(cli.args) =>
       /\ cli.pc \in {"start", "exited"}
       /\ cli.calls = <<>> /\ cli.states_created = 0
       /\ cli.out_file = NoFile
       /\ cli.pc = "exited" => cli.exit_code # 0 /\ cli.result.kind = "Error"
  /\ cli.pc = "exited" /\ cli.exit_code = 0 /\ ~cli.args.list_keys =>
       cli.result.kind = "Success" /\ cli.out_file.state = "final"

\* Every sample of the sequence is a signed 16-bit integer.
InSigned16(samples) ==
  \A i \in 1..Len(samples) :
    -FullScale16 <= samples[i] /\ samples[i] <= FullScale16 - 1

\* C22: after normalization no accumulator sample exceeds 1.0 in absolute
\* value, and every integer sample encoded and written for a 16-bit input
\* lies in -32768..32767, whatever the input and the engine's output.
C22_WrittenSamplesInRange ==
  /\ PFNormalized => SeqMaxAbs(pf.processed_audio) <= Unit
  /\ InSigned16(pf.integer_samples)
  /\ InSigned16(pf.out_file.samples)
  /\ CLINormalized => SeqMaxAbs(cli.processed_audio) <= Unit
  /\ InSigned16(cli.integer_samples)
  /\ InSigned16(cli.out_file.samples)

\* process_file has written a file whose accumulator peaked above 1.0
\* before normalization; the largest written sample is near full scale.
C22_Witness ==
  /\ pf.out_file.state = "final"
  /\ SeqMaxAbs(Accumulated(pf)) > 2 * Unit
  /\ SeqMaxAbs(pf.out_file.samples) > OutputScale16 \div 2
  /\ SeqMaxAbs(pf.out_file.samples) <= OutputScale16

\* Message k of those the run sent on the progress channel has been
\* applied by the UI, at its place in the order.
AppliedByUI(k) ==
  /\ k <= Len(app.applied)
  /\ app.applied[k] = progress_chan.sent[k]

\* C23: no Status or Progress message is lost to the race between the two
\* channels: once the UI has applied the result of a run, it has applied
\* every message the run sent on the progress channel, under every
\* interleaving of the thread with the UI's poll.
C23_NoProgressMessageLost ==
  OutcomeApplied =>
    \A k \in 1..Len(progress_chan.sent) : AppliedByUI(k)

\* The spawned thread exists: process_file runs or its result is unsent.
ThreadInFlight == pf.pc \notin {"idle", "exited"}

\* What holds of the fields in every state of the GUI.
OneRunFields ==
  /\ ThreadInFlight => app.is_processing
  /\ app.is_processing <=> app.progress_receiver /\ app.result_receiver
  /\ app.progress_receiver <=> app.result_receiver
  /\ app.is_processing <=> app.runs >= 1 /\ ~OutcomeApplied
  /\ app.is_processing => ~StartEnabled(app)
  /\ ~app.input_file \/ ~app.output_file =>
       /\ ~StartEnabled(app)
       /\ ~StartProcessing(app).spawned
       /\ StartProcessing(app).app.is_processing = app.is_processing
       /\ StartProcessing(app).app.progress_receiver = app.progress_receiver
       /\ StartProcessing(app).app.result_receiver = app.result_receiver
       /\ StartProcessing(app).app.runs = app.runs

\* What holds of every step of the GUI: a run starts only while none is in
\* flight, and is_processing falls only as the UI applies a result.
OneRunSteps ==
  /\ app'.runs # app.runs =>
       /\ ~app.is_processing /\ ~ThreadInFlight
       /\ app'.runs = app.runs + 1
       /\ app'.is_processing /\ pf'.pc = "open"
  /\ pf'.pc = "open" /\ pf.pc # "open" => app'.runs = app.runs + 1
  /\ app.is_processing /\ ~app'.is_processing =>
       /\ result_chan.queue # <<>>
       /\ app'.processing_result = Head(result_chan.queue)
       /\ pf.pc = "exited"

\* C24: in the GUI at most one background run is in flight: a run is
\* started only while is_processing is false and no thread is left,
\* is_processing and both receivers stay set from the start until the UI
\* receives the result of that run, and start_processing with a missing
\* path spawns nothing and leaves is_processing and the receivers alone.
C24_OneRunInFlight_P == []OneRunFields /\ [][OneRunSteps]_vars

\* The thread of a second run is in its frame loop, the first run over.
C24_Witness ==
  /\ app.runs = 2
  /\ app.is_processing
  /\ pf.pc = "frames" /\ pf.calls # <<>>
  /\ app.progress_receiver /\ app.result_receiver

====
